---- MODULE Spec2Model ----
(***************************************************************************)
(* Model of sync_spotify.py: the filename sanitizer, the playlist-name     *)
(* resolver with its three tiers, the spotdl sync step, the ffmpeg         *)
(* post-processor and the batch loop of main().                            *)
(*                                                                         *)
(* Python values are tagged records: Str(s) is a str whose characters are  *)
(* the elements of the sequence s, None is None and NonStr is a truthy     *)
(* value that is not a str (a number, list or mapping out of JSON).        *)
(* A character is a one-character string; the characters without a TLA+    *)
(* escape are written by name ("NUL", "NBSP", "DEL").                      *)
(***************************************************************************)
EXTENDS Integers, Sequences, FiniteSets, TLC

VARIABLES
    \* ---- sanitize_filename harness
    sx,         \* the argument of sanitize_filename
    sy,         \* sanitize_filename(sx), or NotYet
    sz,         \* sanitize_filename(sy), or NotYet
    \* ---- resolve_playlist_name harness
    rref,       \* the reference passed to resolve_playlist_name
    renv,       \* libraries installed, credentials set
    rapi,       \* what the Spotify API call does
    rweb,       \* what the page fetch does
    rout,       \* the outcome of resolve_playlist_name, or NotYet
    \* ---- extract_playlist_id and save-file name harnesses
    eref,       \* the argument of extract_playlist_id
    eout,       \* extract_playlist_id(eref), or NotYet
    pname,      \* a resolved playlist name
    psave,      \* the --save-file argument built from pname, or NotYet
    \* ---- main(): what the run is given
    pfile,      \* whether the playlists file exists
    cfgfile,    \* the spotDL config file: [kind, post_strip]
    dry_run,    \* args.dry_run
    no_strip,   \* args.no_strip
    rawlines,   \* the lines of the playlists file, in file order
    fs0,        \* the directories and files under base_dir before the run
    \* ---- main(): the run
    pc,         \* where main() is
    lines,      \* the references read from the playlists file, in file order
    idx,        \* the position in lines of the reference being processed
    name,       \* the resolved playlist name of the current reference
    do_post_strip,
    cwd,        \* the process working directory
    orig_cwd,   \* run_spotdl_sync_into_folder's local orig_cwd
    fs,         \* directory -> (file name -> content)
    todo,       \* strip: the files of os.walk's listing not yet looked at
    cur,        \* strip: the file being stripped, with what was seen of it
    exit_code,  \* "none" while running, then "0" or "1"
    cause,      \* why the run ended
    \* ---- main(): observations
    syncLog,    \* the positions whose sync step was entered, in order
    syncFailed, \* the positions whose sync step raised an Exception
    syncOut,    \* how the last sync step left
    nSpotdl,    \* number of times spotdl was invoked
    nFfmpeg,    \* number of times ffmpeg was invoked
    stripOut,   \* how the last call of the post-processor went
    visited,    \* strip: the audio files handled in this call, with the outcome
    printed,    \* the key messages written so far
    procLog,    \* the references handed to resolve_playlist_name, in order
    walked      \* strip: the folder's files as os.walk listed them, until line 298

sanVars == <<sx, sy, sz>>
resVars == <<rref, renv, rapi, rweb, rout>>
fnVars == <<eref, eout, pname, psave>>
givenVars == <<pfile, cfgfile, dry_run, no_strip, rawlines, fs0>>
runVars == <<pc, lines, idx, name, do_post_strip, cwd, orig_cwd, fs, todo, cur, exit_code,
             cause, syncLog, syncFailed, syncOut, nSpotdl, nFfmpeg, stripOut, visited,
             printed, procLog, walked>>
mainVars == <<givenVars, runVars>>
vars == <<sanVars, resVars, fnVars, mainVars>>

----------------------------------------------------------------------------
(* Python values *)

Str(s) == [t |-> "str", v |-> s]
None == [t |-> "None", v |-> <<>>]
NonStr == [t |-> "nonstr", v |-> <<>>]
Raised(e) == [t |-> "raise", v |-> <<e>>]
NotYet == [t |-> "notyet", v |-> <<>>]

\* bool(x) of a value: None and "" are falsy, every other value here is truthy
Truthy(x) == (x.t = "str" /\ x.v # <<>>) \/ x.t = "nonstr"

----------------------------------------------------------------------------
(* Characters *)

\* the characters the first re.sub of sanitize_filename names one by one
ReservedChars == {"<", ">", ":", "\"", "/", "\\", "|", "?", "*"}
\* \x00-\x1f, the range the first re.sub removes
C0Controls == {"NUL", "\t", "\n", "\r", "ESC"}
\* control characters outside \x00-\x1f
OtherControls == {"DEL"}
\* what str.strip() strips and \s matches on a str
Whitespace == {" ", "\t", "\n", "\r", "NBSP"}

IsSpace(c) == c \in Whitespace
IsRemoved(c) == c \in ReservedChars \cup C0Controls

----------------------------------------------------------------------------
(* sanitize_filename *)

max_len == 200

\* str.strip(): drop the leading and the trailing whitespace
PyStrip(s) ==
    LET keep == {i \in 1..Len(s) : ~IsSpace(s[i])}
    IN  IF keep = {} THEN <<>>
        ELSE LET lo == CHOOSE i \in keep : \A j \in keep : i <= j
                 hi == CHOOSE i \in keep : \A j \in keep : i >= j
             IN  SubSeq(s, lo, hi)

\* re.sub(r'[<>:"/\\|?*\x00-\x1f]', '', s)
RemoveDisallowed(s) == SelectSeq(s, LAMBDA c : ~IsRemoved(c))

\* re.sub(r'\s+', ' ', s): every maximal run of whitespace becomes one space
CollapseSpaces(s) ==
    LET pos == [i \in 1..Len(s) |-> i]
        first == SelectSeq(pos, LAMBDA i : ~IsSpace(s[i]) \/ i = 1 \/ ~IsSpace(s[i - 1]))
    IN  [j \in 1..Len(first) |-> IF IsSpace(s[first[j]]) THEN " " ELSE s[first[j]]]

\* s[:n]
Truncate(s, n) == SubSeq(s, 1, IF Len(s) < n THEN Len(s) ELSE n)

Placeholder == <<"P", "l", "a", "y", "l", "i", "s", "t">>

\* sanitize_filename(s) with the default max_len; a truthy non-str has no
\* .strip() and raises AttributeError
sanitize_filename(s) ==
    IF s.t = "nonstr" THEN Raised("AttributeError")
    ELSE LET s0 == IF Truthy(s) THEN s.v ELSE <<>>
             s1 == PyStrip(s0)
             s2 == RemoveDisallowed(s1)
             s3 == PyStrip(CollapseSpaces(s2))
             s4 == Truncate(s3, max_len)
         IN  Str(IF s4 = <<>> THEN Placeholder ELSE s4)

----------------------------------------------------------------------------
(* Inputs of the sanitizer harness: a run of PadChar of a length around    *)
(* max_len (or empty), followed by every tail of at most TailLen           *)
(* characters of TailChars; and None.                                      *)

TailLen == 3
PadSlack == 2
PadChar == "a"
TailChars == {"a", " ", "/", "\t", "NBSP", "DEL"}

Tails == UNION {[1..n -> TailChars] : n \in 0..TailLen}
PadLens == {0} \cup ((max_len - PadSlack)..(max_len + 1))
Pad(n) == [i \in 1..n |-> PadChar]
SanInputs == {Str(Pad(n) \o t) : n \in PadLens, t \in Tails} \cup {None}

Init_Sanitize_Part == sx \in SanInputs /\ sy = NotYet /\ sz = NotYet
Idle_Sanitize_Part == sx = None /\ sy = NotYet /\ sz = NotYet

\* one call of sanitize_filename on the input
Sanitize ==
    /\ sy = NotYet
    /\ sy' = sanitize_filename(sx)
    /\ UNCHANGED <<sx, sz, resVars, fnVars, mainVars>>

\* a second call, on the result of the first
SanitizeAgain ==
    /\ sy # NotYet /\ sz = NotYet
    /\ sz' = sanitize_filename(sy)
    /\ UNCHANGED <<sx, sy, resVars, fnVars, mainVars>>

----------------------------------------------------------------------------
(* extract_playlist_id *)

Digits == {"0", "1", "2", "3", "4", "5", "6", "7", "8", "9"}
Lower == {"a", "b", "c", "d", "e", "f", "g", "h", "i", "j", "k", "l", "m",
          "n", "o", "p", "q", "r", "s", "t", "u", "v", "w", "x", "y", "z"}
Upper == {"A", "B", "C", "D", "E", "F", "G", "H", "I", "J", "K", "L", "M",
          "N", "O", "P", "Q", "R", "S", "T", "U", "V", "W", "X", "Y", "Z"}
\* [A-Za-z0-9]
IsAlnum(c) == c \in Digits \cup Lower \cup Upper

Marker == <<"p", "l", "a", "y", "l", "i", "s", "t">>

\* the positions where r"playlist[/:]([A-Za-z0-9]+)" matches
MarkerMatches(u) ==
    {p \in 1..Len(u) :
        /\ p + Len(Marker) + 1 <= Len(u)
        /\ SubSeq(u, p, p + Len(Marker) - 1) = Marker
        /\ u[p + Len(Marker)] \in {"/", ":"}
        /\ IsAlnum(u[p + Len(Marker) + 1])}

\* the greedy group ([A-Za-z0-9]+) starting at position b
AlnumRun(u, b) ==
    LET stop == {j \in b..Len(u) : ~IsAlnum(u[j])}
        e == IF stop = {} THEN Len(u)
             ELSE (CHOOSE j \in stop : \A k \in stop : j <= k) - 1
    IN  SubSeq(u, b, e)

\* mutant: the rightmost match instead of the leftmost
extract_playlist_id_LastMatch(u) ==
    LET ms == MarkerMatches(u)
    IN  IF ms # {}
        THEN AlnumRun(u, (CHOOSE p \in ms : \A q \in ms : p >= q) + Len(Marker) + 1)
        ELSE u

\* re.search returns the leftmost match; the second pattern can only match
\* where the first already did, and both remaining branches return the
\* argument itself
extract_playlist_id(u) ==
    LET ms == MarkerMatches(u)
    IN  IF ms # {}
        THEN AlnumRun(u, (CHOOSE p \in ms : \A q \in ms : p <= q) + Len(Marker) + 1)
        ELSE u

\* the arguments tried: up to MaxPieces pieces, each a marker with one of
\* the separators, a marker without one, or one other character
MaxPieces == 4
Pieces == {Marker \o <<"/">>, Marker \o <<":">>, Marker,
           <<"A">>, <<"1">>, <<"?">>, <<"/">>}
RECURSIVE Concat(_)
Concat(ps) == IF ps = <<>> THEN <<>> ELSE Head(ps) \o Concat(Tail(ps))
ExtractInputs == {Concat(ps) : ps \in UNION {[1..n -> Pieces] : n \in 0..MaxPieces}}

Init_Extract_Part == eref \in ExtractInputs /\ eout = NotYet

\* one call of extract_playlist_id on a str
Extract ==
    /\ eout = NotYet
    /\ eout' = Str(extract_playlist_id(eref))
    /\ UNCHANGED <<eref, pname, psave, sanVars, resVars, mainVars>>

----------------------------------------------------------------------------
(* The name tiers and resolve_playlist_name *)

\* get_name_via_spotify_api: env says what is installed and set, api what
\* sp.playlist(...) does
get_name_via_spotify_api(env, api) ==
    IF ~env.spotipy THEN None
    ELSE IF ~env.cid \/ ~env.secret THEN None
    ELSE IF api.kind = "raise" THEN None
    ELSE IF api.kind = "name" THEN api.name
    ELSE None

\* get_name_via_scrape: web says what requests.get(...) and the parse give
get_name_via_scrape(env, web) ==
    IF ~env.requests THEN None
    ELSE IF web.kind = "raise" THEN None
    ELSE IF web.status # 200 THEN None
    ELSE IF Truthy(web.og) THEN web.og
    ELSE IF Truthy(web.title) THEN web.title
    ELSE None

\* mutant: the page title is consulted before the API name
resolve_playlist_name_ScrapeFirst(u, env, api, web) ==
    LET pid == extract_playlist_id(u)
        n1 == get_name_via_spotify_api(env, api)
        n2 == get_name_via_scrape(env, web)
    IN  IF Truthy(n2) THEN [out |-> sanitize_filename(n2), scraped |-> TRUE]
        ELSE IF Truthy(n1) THEN [out |-> sanitize_filename(n1), scraped |-> TRUE]
        ELSE [out |-> sanitize_filename(Str(pid)), scraped |-> TRUE]

\* mutant: the identifier is returned as it is, not sanitized
resolve_playlist_name_RawId(u, env, api, web) ==
    LET pid == extract_playlist_id(u)
        n1 == get_name_via_spotify_api(env, api)
        n2 == get_name_via_scrape(env, web)
    IN  IF Truthy(n1) THEN [out |-> sanitize_filename(n1), scraped |-> FALSE]
        ELSE IF Truthy(n2) THEN [out |-> sanitize_filename(n2), scraped |-> TRUE]
        ELSE [out |-> Str(pid), scraped |-> TRUE]

\* resolve_playlist_name; .scraped records whether get_name_via_scrape was
\* called, .out is the returned str or the exception that escapes
resolve_playlist_name(u, env, api, web) ==
    LET pid == extract_playlist_id(u)
        n1 == get_name_via_spotify_api(env, api)
        n2 == get_name_via_scrape(env, web)
    IN  IF Truthy(n1) THEN [out |-> sanitize_filename(n1), scraped |-> FALSE]
        ELSE IF Truthy(n2) THEN [out |-> sanitize_filename(n2), scraped |-> TRUE]
        ELSE [out |-> sanitize_filename(Str(pid)), scraped |-> TRUE]

(* Inputs of the resolver harness *)

RefUrl == <<"p", "l", "a", "y", "l", "i", "s", "t", "/", "A", "1", "?", "s", "i">>
RefUri == <<"s", ":", "p", "l", "a", "y", "l", "i", "s", "t", ":", "b", "2">>
RefRaw == <<"Z", "9">>
RefOdd == <<"?", "*">>
RefDot == <<".">>
RefInputs == {RefUrl, RefUri, RefRaw, RefOdd, RefDot}

Envs == [spotipy : BOOLEAN, cid : BOOLEAN, secret : BOOLEAN, requests : BOOLEAN]

ApiNames == {None, Str(<<>>), Str(<<"M", "i", "x">>), Str(<<" ">>), Str(<<"?">>), NonStr,
             Str(<<".", ".", "/">>)}
ApiOutcomes == {[kind |-> k, name |-> None] : k \in {"raise", "nodata", "noname"}}
               \cup {[kind |-> "name", name |-> n] : n \in ApiNames}

WebNames == {None, Str(<<>>), Str(<<"T", "o", "p">>), Str(<<"T", "/", " ", " ", "o">>)}
WebOutcomes == {[kind |-> "raise", status |-> 0, og |-> None, title |-> None]}
               \cup {[kind |-> "ok", status |-> 404, og |-> None, title |-> None]}
               \cup {[kind |-> "ok", status |-> 200, og |-> o, title |-> t] :
                        o \in WebNames, t \in WebNames}

NoEnv == [spotipy |-> FALSE, cid |-> FALSE, secret |-> FALSE, requests |-> FALSE]
NoOut == [out |-> NotYet, scraped |-> FALSE]

Init_Resolve_Part ==
    /\ rref \in RefInputs /\ renv \in Envs
    /\ rapi \in ApiOutcomes /\ rweb \in WebOutcomes
    /\ rout = NoOut
Idle_Resolve_Part ==
    /\ rref = RefRaw /\ renv = NoEnv
    /\ rapi = [kind |-> "raise", name |-> None]
    /\ rweb = [kind |-> "raise", status |-> 0, og |-> None, title |-> None]
    /\ rout = NoOut

\* one call of resolve_playlist_name
Resolve ==
    /\ rout = NoOut
    /\ rout' = resolve_playlist_name(rref, renv, rapi, rweb)
    /\ UNCHANGED <<rref, renv, rapi, rweb, sanVars, fnVars, mainVars>>

----------------------------------------------------------------------------
(* Files and directories *)

ToLower(c) ==
    CASE c = "M" -> "m" [] c = "P" -> "p" [] c = "B" -> "b" [] c = "T" -> "t"
      [] OTHER -> c
\* str.lower()
PyLower(s) == [k \in 1..Len(s) |-> ToLower(s[k])]
\* str.endswith(suf)
EndsWith(s, suf) ==
    Len(s) >= Len(suf) /\ SubSeq(s, Len(s) - Len(suf) + 1, Len(s)) = suf

Mp3Ext == <<".", "m", "p", "3">>
TmpSuffix == <<".", "t", "m", "p", ".", "m", "p", "3">>

\* f.lower().endswith(".mp3")
IsMp3(f) == EndsWith(PyLower(f), Mp3Ext)
\* tmp = full + ".tmp.mp3"
TmpOf(f) == f \o TmpSuffix

\* a file's content: whose audio it is, and whether it is the download, the
\* stripped copy, or an incomplete output of the strip tool
Content(f, k) == [of |-> f, kind |-> k]
Absent == [of |-> <<>>, kind |-> "absent"]
StrippedOf(c) == [c EXCEPT !.kind = "stripped"]
PartialOf(c) == [c EXCEPT !.kind = "partial"]

NoFiles == [f \in {} |-> Absent]
Write(m, f, c) == [x \in DOMAIN m \cup {f} |-> IF x = f THEN c ELSE m[x]]
Remove(m, f) == [x \in DOMAIN m \ {f} |-> m[x]]
At(m, f) == IF f \in DOMAIN m THEN m[f] ELSE Absent

base_dir == << <<"b", "a", "s", "e">> >>
StartCwd == << <<"h", "o", "m", "e">> >>
\* folder = str(base_dir / name), as the directory mkdir and chdir reach:
\* pathlib drops a "." component, the system takes ".." to the parent
Folder(n) ==
    IF n = <<".">> THEN base_dir
    ELSE IF n = <<".", ".">> THEN SubSeq(base_dir, 1, Len(base_dir) - 1)
    ELSE Append(base_dir, n)

\* Path(folder).mkdir(parents=True, exist_ok=True)
Mkdir(d, p) == [x \in DOMAIN d \cup {p} |-> IF x \in DOMAIN d THEN d[x] ELSE NoFiles]

FileA == <<"a", ".", "m", "p", "3">>
FileB == <<"B", ".", "M", "P", "3">>
FileN == <<"n", ".", "t", "x", "t">>

----------------------------------------------------------------------------
(* The save-file name of run_spotdl_sync_into_folder *)

SaveSuffix == <<".", "s", "p", "o", "t", "d", "l">>

\* lines 185-187: save_name = f"{playlist_name}.spotdl", then the suffix
\* once more if save_name does not end with it
save_name(playlist_name) ==
    LET s1 == playlist_name \o SaveSuffix
    IN  IF ~EndsWith(s1, SaveSuffix) THEN s1 \o SaveSuffix ELSE s1

\* the names tried: what sanitize_filename makes of a stem of up to MaxStem
\* characters, alone and followed by ".spotdl"
MaxStem == 3
StemChars == {"a", "l", ".", " ", "/"}
Stems == UNION {[1..n -> StemChars] : n \in 0..MaxStem}
SaveNameInputs ==
    {sanitize_filename(Str(st \o suf)).v : st \in Stems, suf \in {<<>>, SaveSuffix}}

Init_SaveName_Part == pname \in SaveNameInputs /\ psave = NotYet

\* lines 185-188 for one resolved name
SaveName ==
    /\ psave = NotYet
    /\ psave' = Str(save_name(pname))
    /\ UNCHANGED <<pname, eref, eout, sanVars, resVars, mainVars>>

----------------------------------------------------------------------------
(* What a run is given *)

MaxLines == 2

RunRefs == {RefUrl, RefRaw}

\* the lines of a playlists file, each with its line end: a reference, a
\* reference between blanks, a comment after a blank, a line of blanks
NL == "\n"
RawLines == {RefUrl \o <<NL>>,
             <<" ">> \o RefRaw \o <<" ", NL>>,
             <<" ", "#", "Z", "9", NL>>,
             <<" ", NL>>}
RawLineLists == UNION {[1..n -> RawLines] : n \in 0..MaxLines}

StartsWith(s, p) == Len(s) >= Len(p) /\ SubSeq(s, 1, Len(p)) = p

\* mutant: the comment test looks at the line as read, not at the trimmed line
ReadLines_RawCommentTest(raw) ==
    LET keep(ln) == PyStrip(ln) # <<>> /\ ~StartsWith(ln, <<"#">>)
        kept == SelectSeq(raw, keep)
    IN  [k \in 1..Len(kept) |-> PyStrip(kept[k])]

\* lines 273-274: [ln.strip() for ln in fh
\*                 if ln.strip() and not ln.strip().startswith("#")]
ReadLines(raw) ==
    LET keep(ln) == PyStrip(ln) # <<>> /\ ~StartsWith(PyStrip(ln), <<"#">>)
        kept == SelectSeq(raw, keep)
    IN  [k \in 1..Len(kept) |-> PyStrip(kept[k])]

\* the JSON values a post_strip key is given here, by their text; "unset" is
\* an object without the key
PostStripValues == {"true", "false"}
CfgFiles == {[kind |-> k, post_strip |-> "unset"] : k \in {"absent", "unreadable", "nonobject"}}
            \cup {[kind |-> "object", post_strip |-> v] : v \in {"unset"} \cup PostStripValues}

\* bool(v) of a parsed JSON value: false, null, zero and the empty string,
\* list and object are false, everything else is true
PyBool(v) == v \notin {"false", "null", "0", "0.0", "\"\"", "[]", "{}"}

\* load_spotdl_config: {} when no file is found or it cannot be read or
\* parsed, else whatever json.load returns
load_spotdl_config(c) ==
    IF c.kind \in {"absent", "unreadable"} THEN [t |-> "dict", post_strip |-> "unset"]
    ELSE IF c.kind = "nonobject" THEN [t |-> "nondict", post_strip |-> "unset"]
    ELSE [t |-> "dict", post_strip |-> c.post_strip]

\* the folder an earlier run left: it was interrupted while ffmpeg wrote
\* the temporary output of a.mp3
PrevFolder == Folder(<<"Z", "9">>)
FsFresh == [p \in {} |-> NoFiles]
FsInterrupted ==
    [p \in {PrevFolder} |->
        Write(Write(NoFiles, FileA, Content(FileA, "orig")),
              TmpOf(FileA), Content(FileA, "partial"))]
FsSynced ==
    [p \in {PrevFolder} |->
        Write(Write(NoFiles, FileB, Content(FileB, "stripped")),
              FileN, Content(FileN, "orig"))]
InitialFs == {FsFresh, FsInterrupted, FsSynced}

\* what the tiers do during a run
RunEnvs == {NoEnv, [spotipy |-> TRUE, cid |-> TRUE, secret |-> TRUE, requests |-> TRUE]}
RunApis == {[kind |-> "raise", name |-> None],
            [kind |-> "name", name |-> Str(<<"Z", ":", "9">>)],
            [kind |-> "name", name |-> NonStr]}
RunWebs == {[kind |-> "raise", status |-> 0, og |-> None, title |-> None]}

\* the files one spotdl invocation writes into the working directory
DownloadSets == {{}, {FileA}}

Init_Main_Part ==
    /\ pfile \in BOOLEAN /\ cfgfile \in CfgFiles
    /\ dry_run \in BOOLEAN /\ no_strip \in BOOLEAN
    /\ rawlines \in RawLineLists /\ fs0 \in InitialFs
    /\ pc = "start" /\ lines = <<>> /\ idx = 0 /\ name = <<>> /\ do_post_strip = TRUE
    /\ cwd = StartCwd /\ orig_cwd = StartCwd
    /\ fs = fs0 /\ todo = {} /\ cur = [f |-> <<>>, before |-> Absent, wrote |-> Absent]
    /\ exit_code = "none" /\ cause = "none"
    /\ syncLog = <<>> /\ syncFailed = {} /\ syncOut = "none"
    /\ nSpotdl = 0 /\ nFfmpeg = 0 /\ stripOut = "none" /\ visited = {}
    /\ printed = {} /\ procLog = <<>> /\ walked = NoFiles

Idle_Main_Part ==
    /\ pfile = FALSE /\ cfgfile = [kind |-> "absent", post_strip |-> "unset"]
    /\ dry_run = FALSE /\ no_strip = FALSE
    /\ rawlines = <<>> /\ fs0 = FsFresh
    /\ pc = "idle" /\ lines = <<>> /\ idx = 0 /\ name = <<>> /\ do_post_strip = TRUE
    /\ cwd = StartCwd /\ orig_cwd = StartCwd
    /\ fs = fs0 /\ todo = {} /\ cur = [f |-> <<>>, before |-> Absent, wrote |-> Absent]
    /\ exit_code = "none" /\ cause = "none"
    /\ syncLog = <<>> /\ syncFailed = {} /\ syncOut = "none"
    /\ nSpotdl = 0 /\ nFfmpeg = 0 /\ stripOut = "none" /\ visited = {}
    /\ printed = {} /\ procLog = <<>> /\ walked = NoFiles

----------------------------------------------------------------------------
(* main() *)

\* what is written when the run ends: lines 243, 300, 303, or the traceback
\* of an exception nothing catches
Message(why) ==
    CASE why = "missing" -> "Playlists file not found"
      [] why = "interrupt" -> "Interrupted by user. Exiting."
      [] why = "completed" -> "All done."
      [] OTHER -> "Traceback"

\* the process ends: sys.exit(code), the end of main(), or an exception
\* nothing catches (the interpreter then exits with status 1)
End(code, why) ==
    /\ pc' = "done" /\ exit_code' = code /\ cause' = why
    /\ printed' = printed \cup {Message(why)}

\* mutant: the --no-strip flag is applied after the config key
PostStripSetting_FlagWins(cfg, flag) ==
    IF flag THEN FALSE
    ELSE IF cfg.post_strip # "unset" THEN PyBool(cfg.post_strip) ELSE TRUE

\* lines 252-254: do_post_strip = not args.no_strip, then
\* if "post_strip" in cfg: do_post_strip = bool(cfg["post_strip"])
PostStripSetting(cfg, flag) ==
    IF cfg.post_strip # "unset" THEN PyBool(cfg.post_strip) ELSE ~flag

\* lines 239-274: the arguments, the config, the list
Startup ==
    /\ pc = "start"
    /\ LET cfg == load_spotdl_config(cfgfile)
       IN  IF ~pfile
           THEN End("1", "missing") /\ UNCHANGED <<do_post_strip, fs, lines>>
           ELSE IF cfg.t # "dict"
           THEN \* cfg.get(...) on a value that is no dict: AttributeError
                End("1", "config_error") /\ UNCHANGED <<do_post_strip, fs, lines>>
           ELSE /\ do_post_strip' = PostStripSetting(cfg, no_strip)
                /\ fs' = Mkdir(fs, base_dir)
                /\ lines' = ReadLines(rawlines)
                /\ pc' = "loop"
                /\ UNCHANGED <<exit_code, cause, printed>>
    /\ UNCHANGED <<idx, name, cwd, orig_cwd, todo, cur, syncLog, syncFailed, syncOut,
                   nSpotdl, nFfmpeg, stripOut, visited>>
    /\ UNCHANGED <<procLog, walked>>
    /\ UNCHANGED <<sanVars, resVars, fnVars, givenVars>>

\* line 277, and line 303 when the list is exhausted
LoopNext ==
    /\ pc = "loop"
    /\ IF idx < Len(lines)
       THEN idx' = idx + 1 /\ pc' = "resolve" /\ UNCHANGED <<exit_code, cause, printed>>
       ELSE End("0", "completed") /\ UNCHANGED idx
    /\ UNCHANGED <<name, do_post_strip, cwd, orig_cwd, fs, todo, cur, syncLog,
                   syncFailed, syncOut, nSpotdl, nFfmpeg, stripOut, visited>>
    /\ UNCHANGED <<lines, procLog, walked>>
    /\ UNCHANGED <<sanVars, resVars, fnVars, givenVars>>

\* lines 278-282; an exception out of resolve_playlist_name is caught nowhere
ResolveName ==
    /\ pc = "resolve"
    /\ procLog' = Append(procLog, lines[idx])
    /\ \E env \in RunEnvs, api \in RunApis, web \in RunWebs :
          LET r == resolve_playlist_name(lines[idx], env, api, web)
          IN  IF r.out.t = "raise"
              THEN End("1", "resolve_error") /\ UNCHANGED name
              ELSE name' = r.out.v /\ pc' = "sync" /\ UNCHANGED <<exit_code, cause, printed>>
    /\ UNCHANGED <<idx, do_post_strip, cwd, orig_cwd, fs, todo, cur, syncLog,
                   syncFailed, syncOut, nSpotdl, nFfmpeg, stripOut, visited>>
    /\ UNCHANGED <<lines, walked>>
    /\ UNCHANGED <<sanVars, resVars, fnVars, givenVars>>

\* mutant: no finally clause, the working directory stays where it is
RestoreCwd_Skipped(now, orig) == now

\* the finally clause of run_spotdl_sync_into_folder: os.chdir(orig_cwd)
RestoreCwd(now, orig) == orig

\* mutant: a failed sync step leaves the loop (break instead of continue)
SyncFailure_Breaks(how) ==
    /\ syncFailed' = syncFailed \cup {idx}
    /\ syncOut' = how
    /\ End("0", "completed")

\* mutant: the handlers of the sync step fall through to the post-processor
SyncFailure_ThenStrip(how) ==
    /\ syncFailed' = syncFailed \cup {idx}
    /\ syncOut' = how
    /\ pc' = "post"
    /\ UNCHANGED <<exit_code, cause, printed>>

\* lines 286-292: both handlers of the sync step log and continue
SyncFailure(how) ==
    /\ syncFailed' = syncFailed \cup {idx}
    /\ syncOut' = how
    /\ pc' = "loop"
    /\ UNCHANGED <<exit_code, cause, printed>>

\* lines 285, 180-192: the sync step up to the call of spotdl
SyncEnter ==
    /\ pc = "sync"
    /\ syncLog' = Append(syncLog, idx)
    /\ \E o \in {"mkdir_raises", "chdir_raises", "entered"} :
          CASE o = "mkdir_raises" ->
                  /\ SyncFailure("mkdir_raises")
                  /\ UNCHANGED <<fs, cwd, orig_cwd>>
            [] o = "chdir_raises" ->
                  /\ fs' = Mkdir(fs, Folder(name))
                  /\ orig_cwd' = cwd
                  /\ cwd' = RestoreCwd(cwd, cwd)
                  /\ SyncFailure("chdir_raises")
            [] o = "entered" ->
                  /\ fs' = Mkdir(fs, Folder(name))
                  /\ orig_cwd' = cwd
                  /\ IF dry_run
                     THEN /\ cwd' = RestoreCwd(Folder(name), cwd)
                          /\ syncOut' = "dry_run"
                          /\ pc' = "post"
                     ELSE /\ cwd' = Folder(name)
                          /\ syncOut' = "running"
                          /\ pc' = "spotdl"
                  /\ UNCHANGED <<syncFailed, exit_code, cause, printed>>
    /\ UNCHANGED <<idx, name, do_post_strip, todo, cur, nSpotdl, nFfmpeg, stripOut, visited>>
    /\ UNCHANGED <<lines, procLog, walked>>
    /\ UNCHANGED <<sanVars, resVars, fnVars, givenVars>>

\* the working directory after spotdl wrote the files of d into it
Downloaded(d) ==
    [fs EXCEPT ![cwd] =
        [x \in DOMAIN fs[cwd] \cup d |-> IF x \in d THEN Content(x, "orig") ELSE fs[cwd][x]]]

\* lines 193-195: subprocess.run(cmd, check=True) and the finally clause
SyncRun ==
    /\ pc = "spotdl"
    /\ nSpotdl' = nSpotdl + 1
    /\ cwd' = RestoreCwd(cwd, orig_cwd)
    /\ \E o \in {"returned", "nonzero", "oserror", "interrupt"}, d \in DownloadSets :
          CASE o = "returned" ->
                  /\ fs' = Downloaded(d)
                  /\ syncOut' = "returned"
                  /\ pc' = "post"
                  /\ UNCHANGED <<syncFailed, exit_code, cause, printed>>
            [] o = "nonzero" ->
                  /\ fs' = Downloaded(d)
                  /\ SyncFailure("nonzero")
            [] o = "oserror" ->
                  /\ d = {}
                  /\ fs' = fs
                  /\ SyncFailure("oserror")
            [] o = "interrupt" ->
                  /\ fs' = Downloaded(d)
                  /\ syncOut' = "interrupt"
                  /\ End("1", "interrupt")
                  /\ UNCHANGED syncFailed
    /\ UNCHANGED <<idx, name, do_post_strip, orig_cwd, todo, cur, syncLog, nFfmpeg,
                   stripOut, visited>>
    /\ UNCHANGED <<lines, procLog, walked>>
    /\ UNCHANGED <<sanVars, resVars, fnVars, givenVars>>

\* mutant: the post-processor does not look at dry_run
StripEntry_IgnoresDryRun ==
    /\ stripOut' = "walking"
    /\ todo' = DOMAIN fs[Folder(name)]
    /\ walked' = fs[Folder(name)]
    /\ visited' = {}
    /\ pc' = "strip"

\* lines 206-209: the start of strip_mp3_metadata_in_folder
StripEntry ==
    IF dry_run
    THEN stripOut' = "dry_run" /\ pc' = "iter_done" /\ UNCHANGED <<todo, visited, walked>>
    ELSE /\ stripOut' = "walking"
         /\ todo' = DOMAIN fs[Folder(name)]
         /\ walked' = fs[Folder(name)]
         /\ visited' = {}
         /\ pc' = "strip"

\* lines 294-296
Post ==
    /\ pc = "post"
    /\ IF do_post_strip
       THEN StripEntry
       ELSE stripOut' = "off" /\ pc' = "iter_done" /\ UNCHANGED <<todo, visited, walked>>
    /\ UNCHANGED <<idx, name, do_post_strip, cwd, orig_cwd, fs, cur, exit_code, cause, printed,
                   syncLog, syncFailed, syncOut, nSpotdl, nFfmpeg>>
    /\ UNCHANGED <<lines, procLog>>
    /\ UNCHANGED <<sanVars, resVars, fnVars, givenVars>>

\* lines 209-214: the next file of the listing, in any order
StripPick ==
    /\ pc = "strip"
    /\ IF todo = {}
       THEN stripOut' = "returned" /\ pc' = "iter_done" /\ UNCHANGED <<todo, cur>>
       ELSE \E f \in todo :
               /\ todo' = todo \ {f}
               /\ IF IsMp3(f)
                  THEN /\ cur' = [f |-> f, before |-> At(fs[Folder(name)], f), wrote |-> Absent]
                       /\ pc' = "ffmpeg"
                  ELSE UNCHANGED <<cur, pc>>
               /\ UNCHANGED stripOut
    /\ UNCHANGED <<idx, name, do_post_strip, cwd, orig_cwd, fs, exit_code, cause, printed,
                   syncLog, syncFailed, syncOut, nSpotdl, nFfmpeg, visited>>
    /\ UNCHANGED <<lines, procLog, walked>>
    /\ UNCHANGED <<sanVars, resVars, fnVars, givenVars>>

\* lines 215-217: subprocess.run of the strip tool on cur.f
FfmpegRun ==
    /\ pc = "ffmpeg"
    /\ nFfmpeg' = nFfmpeg + 1
    /\ LET dir == Folder(name)
           src == At(fs[dir], cur.f)
           tmp == TmpOf(cur.f)
       IN  \E o \in {"zero", "nonzero", "oserror", "interrupt"}, partial \in BOOLEAN :
              CASE o = "zero" ->
                      \* the tool read the input and wrote all of the output
                      /\ src # Absent /\ ~partial
                      /\ fs' = [fs EXCEPT ![dir] = Write(@, tmp, StrippedOf(src))]
                      /\ cur' = [cur EXCEPT !.wrote = StrippedOf(src)]
                      /\ pc' = "move"
                      /\ UNCHANGED <<exit_code, cause, printed, stripOut>>
                [] o = "nonzero" ->
                      \* CalledProcessError, with or without a partial output
                      /\ partial => src # Absent
                      /\ fs' = IF partial
                               THEN [fs EXCEPT ![dir] = Write(@, tmp, PartialOf(src))]
                               ELSE fs
                      /\ pc' = "cleanup"
                      /\ UNCHANGED <<cur, exit_code, cause, printed, stripOut>>
                [] o = "oserror" ->
                      \* the executable cannot be started: no handler catches it
                      /\ ~partial
                      /\ stripOut' = "raised"
                      /\ End("1", "strip_error")
                      /\ UNCHANGED <<fs, cur>>
                [] o = "interrupt" ->
                      /\ partial => src # Absent
                      /\ fs' = IF partial
                               THEN [fs EXCEPT ![dir] = Write(@, tmp, PartialOf(src))]
                               ELSE fs
                      /\ stripOut' = "interrupt"
                      /\ End("1", "interrupt")
                      /\ UNCHANGED cur
    /\ UNCHANGED <<idx, name, do_post_strip, cwd, orig_cwd, todo, syncLog, syncFailed,
                   syncOut, nSpotdl, visited>>
    /\ UNCHANGED <<lines, procLog, walked>>
    /\ UNCHANGED <<sanVars, resVars, fnVars, givenVars>>

\* lines 219-220: shutil.move(tmp, full)
StripMove ==
    /\ pc = "move"
    /\ LET dir == Folder(name)
           tmp == TmpOf(cur.f)
       IN  \E o \in {"moved", "raises"} :
              CASE o = "moved" ->
                      /\ fs' = [fs EXCEPT ![dir] = Remove(Write(@, cur.f, @[tmp]), tmp)]
                      /\ visited' = visited \cup {[f |-> cur.f, res |-> "stripped",
                                                   before |-> cur.before, wrote |-> cur.wrote]}
                      /\ pc' = "strip"
                      /\ UNCHANGED <<exit_code, cause, printed, stripOut>>
                [] o = "raises" ->
                      /\ stripOut' = "raised"
                      /\ End("1", "strip_error")
                      /\ UNCHANGED <<fs, visited>>
    /\ UNCHANGED <<idx, name, do_post_strip, cwd, orig_cwd, todo, cur, syncLog, syncFailed,
                   syncOut, nSpotdl, nFfmpeg>>
    /\ UNCHANGED <<lines, procLog, walked>>
    /\ UNCHANGED <<sanVars, resVars, fnVars, givenVars>>

\* lines 221-224: the handler of CalledProcessError
StripCleanup ==
    /\ pc = "cleanup"
    /\ LET dir == Folder(name)
           tmp == TmpOf(cur.f)
       IN  /\ fs' = IF tmp \in DOMAIN fs[dir] THEN [fs EXCEPT ![dir] = Remove(@, tmp)] ELSE fs
           /\ visited' = visited \cup {[f |-> cur.f, res |-> "failed",
                                        before |-> cur.before, wrote |-> Absent]}
           /\ pc' = "strip"
    /\ UNCHANGED <<idx, name, do_post_strip, cwd, orig_cwd, todo, cur, exit_code, cause, printed,
                   syncLog, syncFailed, syncOut, nSpotdl, nFfmpeg, stripOut>>
    /\ UNCHANGED <<lines, procLog, walked>>
    /\ UNCHANGED <<sanVars, resVars, fnVars, givenVars>>

\* line 298
IterDone ==
    /\ pc = "iter_done"
    /\ pc' = "loop"
    \* the locals of strip_mp3_metadata_in_folder are gone
    /\ walked' = NoFiles /\ todo' = {} /\ visited' = {}
    /\ cur' = [f |-> <<>>, before |-> Absent, wrote |-> Absent]
    /\ UNCHANGED <<idx, name, do_post_strip, cwd, orig_cwd, fs, exit_code, cause, printed,
                   syncLog, syncFailed, syncOut, nSpotdl, nFfmpeg, stripOut>>
    /\ UNCHANGED <<lines, procLog>>
    /\ UNCHANGED <<sanVars, resVars, fnVars, givenVars>>

\* mutant: the handler of KeyboardInterrupt prints and the loop goes on
Interrupt_Swallowed ==
    /\ pc \in {"loop", "resolve", "sync", "post", "strip", "ffmpeg", "move", "cleanup",
               "iter_done"}
    /\ pc' = "loop" /\ cause' = "interrupt"
    /\ printed' = printed \cup {Message("interrupt")}
    /\ UNCHANGED <<idx, name, do_post_strip, cwd, orig_cwd, fs, todo, cur, exit_code,
                   syncLog, syncFailed, syncOut, nSpotdl, nFfmpeg, stripOut, visited>>
    /\ UNCHANGED <<lines, procLog, walked>>
    /\ UNCHANGED <<sanVars, resVars, fnVars, givenVars>>

\* lines 299-301: KeyboardInterrupt between two steps of the loop
Interrupt ==
    /\ pc \in {"loop", "resolve", "sync", "post", "strip", "ffmpeg", "move", "cleanup",
               "iter_done"}
    /\ End("1", "interrupt")
    /\ UNCHANGED <<idx, name, do_post_strip, cwd, orig_cwd, fs, todo, cur,
                   syncLog, syncFailed, syncOut, nSpotdl, nFfmpeg, stripOut, visited>>
    /\ UNCHANGED <<lines, procLog, walked>>
    /\ UNCHANGED <<sanVars, resVars, fnVars, givenVars>>

----------------------------------------------------------------------------
(* Specifications *)

\* the harnesses of extract_playlist_id and of the save-file name, at rest
Idle_Extract_Part == eref = <<>> /\ eout = NotYet
Idle_SaveName_Part == pname = <<>> /\ psave = NotYet
Idle_Fn_Part == Idle_Extract_Part /\ Idle_SaveName_Part

InitSanitize == Init_Sanitize_Part /\ Idle_Resolve_Part /\ Idle_Fn_Part /\ Idle_Main_Part
NextSanitize == Sanitize \/ SanitizeAgain
SpecSanitize == InitSanitize /\ [][NextSanitize]_vars

InitResolve == Idle_Sanitize_Part /\ Init_Resolve_Part /\ Idle_Fn_Part /\ Idle_Main_Part
NextResolve == Resolve
SpecResolve == InitResolve /\ [][NextResolve]_vars

InitExtract ==
    /\ Idle_Sanitize_Part /\ Idle_Resolve_Part /\ Idle_Main_Part
    /\ Init_Extract_Part /\ Idle_SaveName_Part
NextExtract == Extract
SpecExtract == InitExtract /\ [][NextExtract]_vars

InitSaveName ==
    /\ Idle_Sanitize_Part /\ Idle_Resolve_Part /\ Idle_Main_Part
    /\ Idle_Extract_Part /\ Init_SaveName_Part
NextSaveName == SaveName
SpecSaveName == InitSaveName /\ [][NextSaveName]_vars

Init == Idle_Sanitize_Part /\ Idle_Resolve_Part /\ Idle_Fn_Part /\ Init_Main_Part
Next ==
    \/ Startup
    \/ LoopNext
    \/ ResolveName
    \/ SyncEnter
    \/ SyncRun
    \/ Post
    \/ StripPick
    \/ FfmpegRun
    \/ StripMove
    \/ StripCleanup
    \/ IterDone
    \/ Interrupt
Spec == Init /\ [][Next]_vars

----------------------------------------------------------------------------
(* Properties *)

\* C1: batch isolation for sync failures. The sync steps run in list order
\* without a gap, whatever sync steps failed before; and a run that ends
\* for no other reason than the end of the list (no missing list, no
\* interrupt, no exception out of the config, the resolver or the
\* post-processor) has run the sync step of every reference and exits 0.
C1_BatchIsolation ==
    /\ syncLog = [k \in 1..Len(syncLog) |-> k]
    /\ syncFailed \subseteq 1..Len(syncLog)
    /\ pc \notin {"start", "done"} => Len(syncLog) \in {idx - 1, idx}
    /\ pc = "done" =>
          \/ cause \in {"missing", "config_error", "resolve_error", "strip_error",
                        "interrupt"}
          \/ Len(syncLog) = Len(lines) /\ exit_code = "0"

\* a finished run in which a sync step failed and a later one still ran
C1_Witness ==
    /\ pc = "done" /\ cause = "completed" /\ exit_code = "0"
    /\ \E j \in syncFailed : \E k \in 1..Len(syncLog) : j < k /\ k \notin syncFailed

\* C2: per-file isolation in the post-processor: no failure of the strip
\* tool or of the replace step ends the run.
C2_StripFailureNeverEndsRun == ~(pc = "done" /\ cause = "strip_error")

\* C3: the run exits with code 1 exactly when the list file is missing or
\* the user interrupted the batch, and with code 0 otherwise.
C3_ExitCode ==
    pc = "done" =>
        /\ exit_code \in {"0", "1"}
        /\ exit_code = "1" <=> (~pfile \/ cause = "interrupt")

\* C4: outside the call of spotdl the working directory is the one the run
\* started in: every way out of the sync step has restored it; and inside
\* the call the directory to restore is that one.
C4_CwdRestored ==
    /\ pc # "spotdl" => cwd = StartCwd
    /\ pc = "spotdl" => orig_cwd = StartCwd /\ cwd = Folder(name)

\* the sync step was left by an interrupt during the call of spotdl
C4_Witness == pc = "done" /\ syncOut = "interrupt" /\ nSpotdl > 0 /\ cwd = StartCwd

\* C5: in a dry run no external tool is invoked and no file is created,
\* replaced or deleted; directories may be created, empty.
C5_DryRun ==
    dry_run =>
        /\ nSpotdl = 0 /\ nFfmpeg = 0
        /\ DOMAIN fs0 \subseteq DOMAIN fs
        /\ \A d \in DOMAIN fs : fs[d] = IF d \in DOMAIN fs0 THEN fs0[d] ELSE NoFiles

\* a completed dry run over a folder with audio files, the post-processor
\* enabled, that created a directory
C5_Witness ==
    /\ dry_run /\ pc = "done" /\ cause = "completed" /\ Len(lines) > 0
    /\ do_post_strip /\ stripOut = "dry_run"
    /\ fs0 = FsInterrupted /\ DOMAIN fs # DOMAIN fs0 \cup {base_dir}
    /\ name = <<"Z", "9">>

\* what the two remote tiers give in the resolver harness
Tier1 == get_name_via_spotify_api(renv, rapi)
Tier2 == get_name_via_scrape(renv, rweb)
Tier3 == Str(extract_playlist_id(rref))

\* C6: tier precedence: the outcome is sanitize_filename of the first of
\* API name, page title, identifier that is non-empty; with an API name
\* the page is not fetched.
C6_TierPrecedence ==
    rout # NoOut =>
        /\ Truthy(Tier1) => rout.out = sanitize_filename(Tier1) /\ ~rout.scraped
        /\ ~Truthy(Tier1) /\ Truthy(Tier2) => rout.out = sanitize_filename(Tier2)
        /\ ~Truthy(Tier1) /\ ~Truthy(Tier2) => rout.out = sanitize_filename(Tier3)

\* all three tiers give names that differ after sanitizing, the first wins
C6_Witness ==
    /\ rout # NoOut /\ Tier1.t = "str" /\ Truthy(Tier1) /\ Truthy(Tier2)
    /\ sanitize_filename(Tier1) # sanitize_filename(Tier2)
    /\ sanitize_filename(Tier1) # sanitize_filename(Tier3)
    /\ sanitize_filename(Tier2) # sanitize_filename(Tier3)
    /\ rout.out = sanitize_filename(Tier1) /\ ~rout.scraped

\* C7: whenever each remote tier gives a str or nothing (library absent,
\* credentials missing, error, non-200, empty), resolve_playlist_name
\* returns a non-empty str, and with nothing from both tiers it returns the
\* sanitized identifier.
C7_ResolveTotal ==
    (rout # NoOut /\ Tier1.t # "nonstr") =>
        /\ rout.out.t = "str" /\ rout.out.v # <<>>
        /\ (~Truthy(Tier1) /\ ~Truthy(Tier2)) =>
              rout.out = sanitize_filename(Str(extract_playlist_id(rref)))

\* both tiers were tried and failed, and the identifier needed sanitizing
C7_Witness ==
    /\ rout # NoOut
    /\ renv.spotipy /\ renv.cid /\ renv.secret /\ rapi.kind = "raise"
    /\ renv.requests /\ rweb.kind = "ok" /\ rweb.status # 200
    /\ rref = RefOdd
    /\ rout.out = Str(Placeholder)

\* C8: sanitize_filename is idempotent.
C8_Idempotent == sz # NotYet => sz = sy

IsControl(c) == c \in C0Controls \cup OtherControls

\* C9: the output of sanitize_filename is non-empty, at most max_len long,
\* free of reserved and control characters, without a run of whitespace and
\* without leading or trailing whitespace; empty and whitespace-only input
\* give the placeholder.
C9_SanitizedShape ==
    sy # NotYet =>
        /\ sy.t = "str"
        /\ Len(sy.v) >= 1 /\ Len(sy.v) <= max_len
        /\ \A k \in 1..Len(sy.v) : sy.v[k] \notin ReservedChars /\ ~IsControl(sy.v[k])
        /\ \A k \in 1..(Len(sy.v) - 1) : ~(IsSpace(sy.v[k]) /\ IsSpace(sy.v[k + 1]))
        /\ ~IsSpace(sy.v[1]) /\ ~IsSpace(sy.v[Len(sy.v)])
        /\ (sx = None \/ \A k \in 1..Len(sx.v) : IsSpace(sx.v[k])) => sy.v = Placeholder

\* C10: when the post-processor returns, every audio file it handled holds
\* the stripped output if the tool succeeded and what it held before if the
\* tool exited non-zero, and its temporary output is gone.
C10_AtomicReplace ==
    (pc = "iter_done" /\ stripOut = "returned") =>
        \A v \in visited :
            LET m == fs[Folder(name)]
            IN  /\ v.res = "stripped" => At(m, v.f) = v.wrote
                /\ v.res = "failed" => At(m, v.f) = v.before
                /\ TmpOf(v.f) \notin DOMAIN m

\* C11: post-processing is enabled exactly when the config has the
\* post_strip key with a truthy value, or has no such key and --no-strip
\* was not given. Once the config is read the setting has that value;
\* strip_mp3_metadata_in_folder is entered only when it holds, is skipped
\* after a sync step only when it does not hold; and when it does not hold
\* ffmpeg is never invoked.
C11_HasKey == cfgfile.kind = "object" /\ cfgfile.post_strip # "unset"
C11_Enabled ==
    \/ C11_HasKey /\ cfgfile.post_strip = "true"
    \/ ~C11_HasKey /\ ~no_strip
C12_MarkerAt(u, p) ==
    /\ p + 9 <= Len(u)
    /\ \E sep \in {"/", ":"} : SubSeq(u, p, p + 8) = Marker \o <<sep>>
    /\ IsAlnum(u[p + 9])
C12_Extraction ==
    eout # NotYet =>
        /\ eout.t = "str"
        /\ IF \E p \in 1..Len(eref) : C12_MarkerAt(eref, p)
           THEN \E p \in 1..Len(eref), e \in 1..Len(eref) :
                   /\ C12_MarkerAt(eref, p)
                   /\ \A q \in 1..(p - 1) : ~C12_MarkerAt(eref, q)
                   /\ e >= p + 9
                   /\ \A k \in (p + 9)..e : IsAlnum(eref[k])
                   /\ e = Len(eref) \/ ~IsAlnum(eref[e + 1])
                   /\ eout.v = SubSeq(eref, p + 9, e)
           ELSE eout.v = eref

\* two markers with an identifier: the result is the run after the first,
\* and it runs into the letters of the second
C12_Witness ==
    /\ eref = Marker \o <<"/", "A">> \o Marker \o <<":", "1">>
    /\ eout = Str(<<"A">> \o Marker)

\* C13: the references handed to name resolution are the trimmed lines of
\* the file that are not empty and do not start with "#", each once, in file
\* order: at every moment a prefix of that list, and the whole list when the
\* run completes. A reference is resolved only when the sync step of every
\* earlier reference has been entered and left and no post-processing is
\* under way, and the steps of an iteration work on the reference resolved
\* last.
RECURSIVE C13_References(_)
C13_References(raw) ==
    IF raw = <<>> THEN <<>>
    ELSE LET t == PyStrip(Head(raw))
         IN  IF t = <<>> \/ t[1] = "#"
             THEN C13_References(Tail(raw))
             ELSE <<t>> \o C13_References(Tail(raw))
C13_ProcessingOrder ==
    /\ [](/\ LET refs == C13_References(rawlines)
             IN  /\ Len(procLog) <= Len(refs)
                 /\ procLog = SubSeq(refs, 1, Len(procLog))
                 /\ cause = "completed" => procLog = refs
          /\ pc \in {"sync", "spotdl", "post", "strip", "ffmpeg", "move", "cleanup", "iter_done"}
                => Len(procLog) = idx /\ Len(syncLog) \in {idx - 1, idx})
    /\ [][procLog' # procLog =>
              /\ Len(procLog') = Len(procLog) + 1
              /\ Len(syncLog) = Len(procLog)
              /\ syncOut # "running" /\ stripOut # "walking"]_vars

\* a completed run over a file with a comment after a blank and a
\* reference between blanks
C13_Witness ==
    /\ cause = "completed"
    /\ rawlines = << <<" ", "#", "Z", "9", NL>>, <<" ">> \o RefRaw \o <<" ", NL>> >>
    /\ procLog = <<RefRaw>>

\* C14: whatever the API lookup gives, no exception escapes
\* resolve_playlist_name; and when it gives no usable name (nothing, an
\* empty name, null, or a name that is no str) the page is fetched and the
\* outcome is the sanitized page title, or else the sanitized identifier.
C14_Tier1NeverPropagates ==
    rout # NoOut =>
        /\ rout.out.t # "raise"
        /\ ~(Tier1.t = "str" /\ Tier1.v # <<>>) =>
              /\ rout.scraped
              /\ rout.out = sanitize_filename(IF Truthy(Tier2) THEN Tier2 ELSE Tier3)

\* C15: the post-processor works on a reference only after the sync step
\* of that reference returned in the same iteration: while it walks, runs
\* ffmpeg, moves or cleans up, the last sync step entered is the one of the
\* reference in work, and it returned; ffmpeg is invoked only then, only
\* the folder of that reference changes, and once the sync step of a
\* reference has failed ffmpeg is not invoked until the next reference is
\* taken.
C15_StripAfterSync ==
    /\ [](pc \in {"strip", "ffmpeg", "move", "cleanup"} =>
            /\ syncOut = "returned" /\ idx \notin syncFailed
            /\ syncLog # <<>> /\ syncLog[Len(syncLog)] = idx)
    /\ [][/\ (nFfmpeg' # nFfmpeg) =>
                (/\ syncOut = "returned" /\ idx \notin syncFailed
                 /\ syncLog[Len(syncLog)] = idx
                 /\ \A d \in DOMAIN fs : d # Folder(name) => fs'[d] = fs[d])
          /\ (idx \in syncFailed /\ idx' = idx) => (nFfmpeg' = nFfmpeg)]_vars

\* the sync step of the first reference failed, the one of the second
\* returned, and ffmpeg is about to run on a file of the second
C15_Witness == pc = "ffmpeg" /\ idx = 2 /\ syncFailed = {1} /\ syncOut = "returned"

\* C16: a KeyboardInterrupt raised while the loop runs (between two steps,
\* or inside spotdl or ffmpeg) ends the run at once: the acknowledgment is
\* printed, the exit code is 1, "All done." is not printed, and from then
\* on no reference is resolved and no tool is invoked.
C16_Interrupt ==
    /\ [](cause = "interrupt" =>
            /\ pc = "done" /\ exit_code = "1"
            /\ "Interrupted by user. Exiting." \in printed
            /\ "All done." \notin printed)
    /\ [][cause = "interrupt" => UNCHANGED <<procLog, syncLog, nSpotdl, nFfmpeg, fs>>]_vars
    /\ [][cause' = "interrupt" =>
              /\ procLog' = procLog /\ syncLog' = syncLog
              /\ nSpotdl' = nSpotdl \/ syncOut' = "interrupt"
              /\ nFfmpeg' = nFfmpeg \/ stripOut' = "interrupt"]_vars

\* interrupted during the sync step of the first of two references
C16_Witness ==
    /\ cause = "interrupt" /\ syncOut = "interrupt"
    /\ idx = 1 /\ Len(lines) = 2 /\ procLog = <<lines[1]>>

\* C17: the --save-file argument is the resolved name itself when the name
\* ends with ".spotdl", and the name followed by ".spotdl" otherwise; it
\* never ends with the suffix twice.
C17_SaveFileName ==
    psave # NotYet =>
        /\ psave.v = IF EndsWith(pname, SaveSuffix) THEN pname ELSE pname \o SaveSuffix
        /\ ~EndsWith(psave.v, SaveSuffix \o SaveSuffix)

\* C18: the config file never ends the run: whether it is absent,
\* unreadable, no valid JSON, or JSON whose top-level value is no object,
\* load_spotdl_config returns a dict and main() goes on to the list.
C18_ConfigNeverFatal ==
    (pfile /\ pc # "start") =>
        /\ load_spotdl_config(cfgfile).t = "dict"
        /\ cause # "config_error"
        /\ lines = ReadLines(rawlines)

\* C19: whatever name resolve_playlist_name returns, the folder the sync
\* step creates and enters is a direct child of base_dir: base_dir followed
\* by exactly one more component.
C19_Containment ==
    (rout # NoOut /\ rout.out.t = "str") =>
        LET folder == Folder(rout.out.v)
        IN  /\ Len(folder) = Len(base_dir) + 1
            /\ SubSeq(folder, 1, Len(base_dir)) = base_dir

\* C20: from the moment strip_mp3_metadata_in_folder has listed the folder,
\* through every step of it and in the state an ffmpeg failure, an
\* exception or an interrupt leaves, every audio file of the listing is
\* still at its path, holding either what it held then or the complete
\* stripped output made from that.
C20_OriginalNeverLost ==
    \A f \in DOMAIN walked :
        IsMp3(f) => At(fs[Folder(name)], f) \in {walked[f], StrippedOf(walked[f])}

====
